---- MODULE Spec2Model ----
(***************************************************************************)
(* A model of the validated identifier (OrderListId over an interned Ustr) *)
(* and of two instrument variants (CryptoFuture, OptionsContract) of       *)
(* nautilus_core/model.                                                    *)
(*                                                                         *)
(* Three specifications share the module:                                  *)
(*   Spec            one caller using OrderListId::new, set_inner, From    *)
(*   SpecConcurrent  several threads inside OrderListId::new at once       *)
(*   SpecInstruments construction, cloning and downcasting of instruments  *)
(***************************************************************************)
EXTENDS Integers, Sequences, FiniteSets, TLC

\* ------------------------------------------------------------------------
\* Bounds
\* ------------------------------------------------------------------------
\* Longest input string handed to the identifier operations.
MaxLen == 1
\* Capacity of the interning table in the model (the real table is unbounded).
MaxCache == 2
\* Largest precision (decimal digits) of a price, a quantity or an instrument.
MaxPrecision == 1

\* ------------------------------------------------------------------------
\* Strings
\* ------------------------------------------------------------------------
\* A string is a sequence of characters.  "NUL" stands for a control
\* character (U+0000), " " for a whitespace character.
Chars == {"0", "1", " ", "NUL"}

RECURSIVE StringsOfLen(_)
StringsOfLen(n) ==
    IF n = 0 THEN {<<>>}
    ELSE {Append(s, c) : s \in StringsOfLen(n - 1), c \in Chars}

Strings == UNION {StringsOfLen(n) : n \in 0..MaxLen}

is_whitespace(c) == c = " "
is_control(c) == c = "NUL"

\* Option and Result values.
None == [tag |-> "None"]
Some(x) == [tag |-> "Some", value |-> x]
Ok(x) == [tag |-> "Ok", value |-> x]
Err(e) == [tag |-> "Err", error |-> e]

\* ------------------------------------------------------------------------
\* nautilus_core::correctness::check_valid_string
\* ------------------------------------------------------------------------
\* Ok for a non-empty string that is not purely whitespace and holds no
\* control character, an error value otherwise.
check_valid_string(s) ==
    IF Len(s) = 0 THEN Err("empty")
    ELSE IF \A i \in 1..Len(s) : is_whitespace(s[i]) THEN Err("whitespace")
    ELSE IF \E i \in 1..Len(s) : is_control(s[i]) THEN Err("control")
    ELSE Ok(<<>>)

\* ------------------------------------------------------------------------
\* Ustr: the process-wide interning table
\* ------------------------------------------------------------------------
\* The table is a sequence of entries; a Ustr is the position of its entry
\* (the pointer to the interned bytes).  Insert-or-lookup is the table's only
\* operation and is atomic (the table does its own locking).
Ustr_lookup(c, s) == CHOOSE i \in 1..Len(c) : c[i] = s

\* A faulty insert that skips the lookup.
Ustr_from_NoDedup(c, s) == [cache |-> Append(c, s), ustr |-> Len(c) + 1]

\* Ustr::from: insert-or-lookup.
Ustr_from(c, s) ==
    IF \E i \in 1..Len(c) : c[i] = s
    THEN [cache |-> c, ustr |-> Ustr_lookup(c, s)]
    ELSE [cache |-> Append(c, s), ustr |-> Len(c) + 1]

Ustr_as_str(c, u) == c[u]

\* Display writes the interned text, Debug writes it quoted.
Ustr_Display(c, u) == Ustr_as_str(c, u)
Ustr_Debug(c, u) == <<"\"">> \o Ustr_as_str(c, u) \o <<"\"">>

\* Whether interning s fits the model's table.
Fits(c, s) == (\E i \in 1..Len(c) : c[i] = s) \/ Len(c) < MaxCache

\* ------------------------------------------------------------------------
\* OrderListId
\* ------------------------------------------------------------------------
\* #[derive(Clone, Copy, Hash, PartialEq, Eq, PartialOrd, Ord)]
\* pub struct OrderListId(Ustr);
OrderListId(u) == [inner |-> u]

\* A faulty factory that interns before it validates.
OrderListId_new_InternFirst(c, value) ==
    LET r == Ustr_from(c, value)
    IN  IF check_valid_string(value).tag = "Err"
        THEN [cache |-> r.cache, ret |-> check_valid_string(value)]
        ELSE [cache |-> r.cache, ret |-> Ok(OrderListId(r.ustr))]

\* check_valid_string(value, ..)?;  Ok(Self(Ustr::from(value)))
OrderListId_new(c, value) ==
    IF check_valid_string(value).tag = "Err"
    THEN [cache |-> c, ret |-> check_valid_string(value)]
    ELSE LET r == Ustr_from(c, value)
         IN  [cache |-> r.cache, ret |-> Ok(OrderListId(r.ustr))]

\* self.0 = Ustr::from(value);
OrderListId_set_inner(c, self, value) ==
    LET r == Ustr_from(c, value)
    IN  [cache |-> r.cache, self |-> OrderListId(r.ustr)]

OrderListId_inner(self) == self.inner

OrderListId_as_str(c, self) == Ustr_as_str(c, self.inner)

\* write!(f, "{:?}", self.0)
OrderListId_Debug(c, self) == Ustr_Debug(c, self.inner)

\* A faulty Display that formats like Debug.
OrderListId_Display_AsDebug(c, self) == Ustr_Debug(c, self.inner)

\* write!(f, "{}", self.0)
OrderListId_Display(c, self) == Ustr_Display(c, self.inner)

\* derived PartialEq: the two Ustr are the same interned entry.
OrderListId_eq(x, y) == x.inner = y.inner

\* ------------------------------------------------------------------------
\* Value types used by the instruments
\* ------------------------------------------------------------------------
\* A Price or a Quantity is a fixed-precision decimal: raw counts units of
\* 10^-precision, precision is its declared number of decimal digits.
Precisions == 0..MaxPrecision

RECURSIVE Pow10(_)
Pow10(n) == IF n = 0 THEN 1 ELSE 10 * Pow10(n - 1)

Price_new(value, precision) ==
    Ok([raw |-> value * Pow10(precision), precision |-> precision])

Quantity_new(value, precision) ==
    Ok([raw |-> value * Pow10(precision), precision |-> precision])

unwrap(r) == r.value

Quantity_from(n) == unwrap(Quantity_new(n, 0))

\* The smallest step at each precision: one unit of 10^-precision.
PriceIncrements == {[raw |-> 1, precision |-> p] : p \in Precisions}
SizeIncrements == {[raw |-> 1, precision |-> p] : p \in Precisions}
Multipliers == {Quantity_from(1), Quantity_from(100)}

InstrumentIds ==
    { [symbol |-> "BTCUSDT", venue |-> "BINANCE"],
      [symbol |-> "BTCUSDT", venue |-> "OKX"] }

\* ------------------------------------------------------------------------
\* CryptoFuture
\* ------------------------------------------------------------------------
CryptoFutureArgs ==
    [ id : InstrumentIds,
      raw_symbol : {"BTCUSDT"},
      underlying : {"BTC"},
      quote_currency : {"USDT"},
      settlement_currency : {"USDT", "BTC"},
      activation_ns : {0},
      expiration_ns : {0},
      price_precision : Precisions,
      size_precision : Precisions,
      price_increment : PriceIncrements,
      size_increment : SizeIncrements,
      lot_size : {None},
      max_quantity : {None},
      min_quantity : {None},
      max_notional : {None},
      min_notional : {None},
      max_price : {None},
      min_price : {None},
      ts_event : {0},
      ts_init : {0} ]

\* Ok(Self { id, raw_symbol, ... }): every argument is stored as given.
CryptoFuture_new(x) ==
    Ok([ id |-> x.id,
         raw_symbol |-> x.raw_symbol,
         underlying |-> x.underlying,
         quote_currency |-> x.quote_currency,
         settlement_currency |-> x.settlement_currency,
         activation_ns |-> x.activation_ns,
         expiration_ns |-> x.expiration_ns,
         price_precision |-> x.price_precision,
         size_precision |-> x.size_precision,
         price_increment |-> x.price_increment,
         size_increment |-> x.size_increment,
         lot_size |-> x.lot_size,
         max_quantity |-> x.max_quantity,
         min_quantity |-> x.min_quantity,
         max_notional |-> x.max_notional,
         min_notional |-> x.min_notional,
         max_price |-> x.max_price,
         min_price |-> x.min_price,
         ts_event |-> x.ts_event,
         ts_init |-> x.ts_init ])

\* #[derive(Clone)]
CryptoFuture_clone(self) == self

\* Faulty equalities: field by field, and by the id's symbol alone.
CryptoFuture_eq_Structural(self, other) == self = other

CryptoFuture_eq_SymbolOnly(self, other) == self.id.symbol = other.id.symbol

\* self.id == other.id
CryptoFuture_eq(self, other) == self.id = other.id

\* self.id.hash(state): the hasher's input grows by the id.
CryptoFuture_hash(self, state) == Append(state, self.id)

CryptoFuture_id(self) == self.id
CryptoFuture_raw_symbol(self) == self.raw_symbol
CryptoFuture_asset_class(self) == "Cryptocurrency"
CryptoFuture_instrument_class(self) == "Future"
CryptoFuture_quote_currency(self) == self.quote_currency
CryptoFuture_base_currency(self) == None

\* A faulty accessor that answers with the quote currency.
CryptoFuture_settlement_currency_Quote(self) == self.quote_currency

CryptoFuture_settlement_currency(self) == self.settlement_currency
CryptoFuture_is_inverse(self) == FALSE
CryptoFuture_price_precision(self) == self.price_precision
CryptoFuture_size_precision(self) == self.size_precision
CryptoFuture_price_increment(self) == self.price_increment
CryptoFuture_size_increment(self) == self.size_increment
CryptoFuture_multiplier(self) == unwrap(Quantity_new(1, 0))
CryptoFuture_lot_size(self) == self.lot_size

\* ------------------------------------------------------------------------
\* OptionsContract
\* ------------------------------------------------------------------------
OptionsContractArgs ==
    [ id : InstrumentIds,
      raw_symbol : {"AAPL211217C00150000"},
      asset_class : {"Equity"},
      underlying : {"AAPL"},
      option_kind : {"Call"},
      activation_ns : {0},
      expiration_ns : {0},
      strike_price : {unwrap(Price_new(150, 0))},
      currency : {"USD"},
      price_precision : Precisions,
      price_increment : PriceIncrements,
      multiplier : Multipliers,
      lot_size : Multipliers,
      max_quantity : {None},
      min_quantity : {None},
      max_price : {None},
      min_price : {None},
      ts_event : {0},
      ts_init : {0} ]

\* A faulty factory that swaps multiplier and lot_size.
OptionsContract_new_Swapped(x) ==
    Ok([ id |-> x.id,
         raw_symbol |-> x.raw_symbol,
         asset_class |-> x.asset_class,
         underlying |-> x.underlying,
         option_kind |-> x.option_kind,
         activation_ns |-> x.activation_ns,
         expiration_ns |-> x.expiration_ns,
         strike_price |-> x.strike_price,
         currency |-> x.currency,
         price_precision |-> x.price_precision,
         price_increment |-> x.price_increment,
         multiplier |-> x.lot_size,
         lot_size |-> x.multiplier,
         max_quantity |-> x.max_quantity,
         min_quantity |-> x.min_quantity,
         max_price |-> x.max_price,
         min_price |-> x.min_price,
         ts_event |-> x.ts_event,
         ts_init |-> x.ts_init ])

\* Ok(Self { id, raw_symbol, ... }): every argument is stored as given.
OptionsContract_new(x) ==
    Ok([ id |-> x.id,
         raw_symbol |-> x.raw_symbol,
         asset_class |-> x.asset_class,
         underlying |-> x.underlying,
         option_kind |-> x.option_kind,
         activation_ns |-> x.activation_ns,
         expiration_ns |-> x.expiration_ns,
         strike_price |-> x.strike_price,
         currency |-> x.currency,
         price_precision |-> x.price_precision,
         price_increment |-> x.price_increment,
         multiplier |-> x.multiplier,
         lot_size |-> x.lot_size,
         max_quantity |-> x.max_quantity,
         min_quantity |-> x.min_quantity,
         max_price |-> x.max_price,
         min_price |-> x.min_price,
         ts_event |-> x.ts_event,
         ts_init |-> x.ts_init ])

\* #[derive(Clone)]
OptionsContract_clone(self) == self

\* self.id == other.id
OptionsContract_eq(self, other) == self.id = other.id

\* self.id.hash(state)
OptionsContract_hash(self, state) == Append(state, self.id)

OptionsContract_id(self) == self.id
OptionsContract_raw_symbol(self) == self.raw_symbol
OptionsContract_asset_class(self) == self.asset_class
OptionsContract_instrument_class(self) == "Option"
OptionsContract_quote_currency(self) == self.currency
OptionsContract_base_currency(self) == None
OptionsContract_settlement_currency(self) == self.currency
OptionsContract_is_inverse(self) == FALSE
OptionsContract_price_precision(self) == self.price_precision
OptionsContract_size_precision(self) == 0
OptionsContract_price_increment(self) == self.price_increment
OptionsContract_size_increment(self) == Quantity_from(1)
OptionsContract_multiplier(self) == self.multiplier
OptionsContract_lot_size(self) == Some(self.lot_size)

\* ------------------------------------------------------------------------
\* The capability contract as a trait object, and the downcast
\* ------------------------------------------------------------------------
\* A `&dyn Instrument` is the concrete type's method table and a reference
\* to the instance; a reference is the place (the caller's variable, and a
\* field path into it) it points to.
Slots == {"a", "b"}
Variants == {"CryptoFuture", "OptionsContract"}

Ref(slot) == [slot |-> slot, field |-> "self"]

\* A faulty as_any that hands out the id field: { &self.id }
CryptoFuture_as_any_Id(self_ref) ==
    [type_id |-> "InstrumentId", ref |-> [slot |-> self_ref.slot, field |-> "id"]]

\* fn as_any(&self) -> &dyn Any { self }
CryptoFuture_as_any(self_ref) == [type_id |-> "CryptoFuture", ref |-> self_ref]

\* fn as_any(&self) -> &dyn Any { self }
OptionsContract_as_any(self_ref) == [type_id |-> "OptionsContract", ref |-> self_ref]

\* Dynamic dispatch of Instrument::as_any on the method table.
Instrument_as_any(vtable, self_ref) ==
    IF vtable = "CryptoFuture" THEN CryptoFuture_as_any(self_ref)
    ELSE OptionsContract_as_any(self_ref)

\* <dyn Any>::downcast_ref::<T>: the reference when the object's type is T,
\* None otherwise.
downcast_ref(any, T) == IF any.type_id = T THEN Some(any.ref) ELSE None

\* ------------------------------------------------------------------------
\* State
\* ------------------------------------------------------------------------
Threads == {"t1", "t2"}

VARIABLES
    cache,      \* the interning table
    ident,      \* the caller's identifier variable: None or Some(OrderListId)
    copy,       \* a copy the caller took of its identifier (OrderListId is Copy)
    lastOp,     \* the caller's last call: "none", "new", "set_inner", "from"
    lastArg,    \* ... its string argument
    lastRet,    \* ... what it returned: None, Ok(id), Err(e), or a panic
    pc,         \* per thread: "idle" or "intern" (inside OrderListId::new)
    targ,       \* per thread: the argument of its current or last call
    tret,       \* per thread: the result of its last call, None while running
    slots,      \* per instrument variable: None or Some([vtable, data])
    args,       \* per instrument variable: the arguments its instance was built from
    probe       \* the last downcast: None or Some([slot, target, result])

idVars == <<cache, ident, copy, lastOp, lastArg, lastRet, pc, targ, tret>>
instVars == <<slots, args, probe>>
vars == <<idVars, instVars>>

Panic == [tag |-> "Panic"]

Init ==
    /\ cache = <<>>
    /\ ident = None
    /\ lastOp = "none"
    /\ lastArg = <<>>
    /\ lastRet = None
    /\ pc = [t \in Threads |-> "idle"]
    /\ targ = [t \in Threads |-> <<>>]
    /\ tret = [t \in Threads |-> None]
    /\ copy = None
    /\ slots = [s \in Slots |-> None]
    /\ args = [s \in Slots |-> None]
    /\ probe = None

\* ------------------------------------------------------------------------
\* One caller
\* ------------------------------------------------------------------------
Running == lastRet # Panic

\* let r = OrderListId::new(value); if let Ok(id) = r { ident = id }
New(value) ==
    /\ Running
    /\ Fits(cache, value)
    /\ LET r == OrderListId_new(cache, value)
       IN  /\ cache' = r.cache
           /\ lastRet' = r.ret
           /\ ident' = IF r.ret.tag = "Ok" THEN Some(r.ret.value) ELSE ident
    /\ lastOp' = "new"
    /\ lastArg' = value
    /\ UNCHANGED <<copy, pc, targ, tret, instVars>>

\* ident.set_inner(value)
SetInner(value) ==
    /\ Running
    /\ ident # None
    /\ Fits(cache, value)
    /\ LET r == OrderListId_set_inner(cache, ident.value, value)
       IN  /\ cache' = r.cache
           /\ ident' = Some(r.self)
    /\ lastOp' = "set_inner"
    /\ lastArg' = value
    /\ lastRet' = None
    /\ UNCHANGED <<copy, pc, targ, tret, instVars>>

\* ident = OrderListId::from(value): Self::new(input).unwrap()
FromStr(value) ==
    /\ Running
    /\ Fits(cache, value)
    /\ LET r == OrderListId_new(cache, value)
       IN  /\ cache' = r.cache
           /\ lastRet' = IF r.ret.tag = "Ok" THEN r.ret ELSE Panic
           /\ ident' = IF r.ret.tag = "Ok" THEN Some(r.ret.value) ELSE ident
    /\ lastOp' = "from"
    /\ lastArg' = value
    /\ UNCHANGED <<copy, pc, targ, tret, instVars>>

\* copy = ident
Copy ==
    /\ Running
    /\ ident # None
    /\ copy' = ident
    /\ UNCHANGED <<cache, ident, lastOp, lastArg, lastRet, pc, targ, tret, instVars>>

Next ==
    \/ \E value \in Strings : New(value)
    \/ Copy
    \/ \E value \in Strings : SetInner(value)
    \/ \E value \in Strings : FromStr(value)

Spec == Init /\ [][Next]_vars

\* ------------------------------------------------------------------------
\* Several threads inside OrderListId::new
\* ------------------------------------------------------------------------
\* check_valid_string(value, ..)?
NewCheck(t, value) ==
    /\ pc[t] = "idle"
    /\ targ' = [targ EXCEPT ![t] = value]
    /\ IF check_valid_string(value).tag = "Err"
       THEN /\ tret' = [tret EXCEPT ![t] = check_valid_string(value)]
            /\ pc' = pc
       ELSE /\ tret' = [tret EXCEPT ![t] = None]
            /\ pc' = [pc EXCEPT ![t] = "intern"]
    /\ UNCHANGED <<cache, ident, copy, lastOp, lastArg, lastRet, instVars>>

\* Ok(Self(Ustr::from(value)))
NewIntern(t) ==
    /\ pc[t] = "intern"
    /\ Fits(cache, targ[t])
    /\ LET r == Ustr_from(cache, targ[t])
       IN  /\ cache' = r.cache
           /\ tret' = [tret EXCEPT ![t] = Ok(OrderListId(r.ustr))]
    /\ pc' = [pc EXCEPT ![t] = "idle"]
    /\ UNCHANGED <<targ, ident, copy, lastOp, lastArg, lastRet, instVars>>

NextConcurrent ==
    \/ \E t \in Threads, value \in Strings : NewCheck(t, value)
    \/ \E t \in Threads : NewIntern(t)

SpecConcurrent == Init /\ [][NextConcurrent]_vars

\* ------------------------------------------------------------------------
\* Instruments
\* ------------------------------------------------------------------------
\* The caller binds each instrument variable once (an instrument is never
\* mutated; a changed record is a new instance).

\* let slot = CryptoFuture::new(..)?
NewCryptoFuture(slot, x) ==
    /\ slots[slot] = None
    /\ LET r == CryptoFuture_new(x)
       IN  IF r.tag = "Ok"
           THEN /\ slots' = [slots EXCEPT ![slot] = Some([vtable |-> "CryptoFuture", data |-> r.value])]
                /\ args' = [args EXCEPT ![slot] = Some(x)]
           ELSE UNCHANGED <<slots, args>>
    /\ UNCHANGED <<probe, idVars>>

\* let slot = OptionsContract::new(..)?
NewOptionsContract(slot, x) ==
    /\ slots[slot] = None
    /\ LET r == OptionsContract_new(x)
       IN  IF r.tag = "Ok"
           THEN /\ slots' = [slots EXCEPT ![slot] = Some([vtable |-> "OptionsContract", data |-> r.value])]
                /\ args' = [args EXCEPT ![slot] = Some(x)]
           ELSE UNCHANGED <<slots, args>>
    /\ UNCHANGED <<probe, idVars>>

\* let dst = src.clone()
Clone(src, dst) ==
    /\ slots[src] # None
    /\ slots[dst] = None
    /\ LET o == slots[src].value
       IN  slots' = [slots EXCEPT ![dst] =
                Some([vtable |-> o.vtable,
                      data |-> IF o.vtable = "CryptoFuture"
                               THEN CryptoFuture_clone(o.data)
                               ELSE OptionsContract_clone(o.data)])]
    /\ args' = [args EXCEPT ![dst] = args[src]]
    /\ UNCHANGED <<probe, idVars>>

\* probe = slot.as_any().downcast_ref::<T>()
Downcast(slot, T) ==
    /\ slots[slot] # None
    /\ probe' = Some([slot |-> slot, target |-> T,
                      result |-> downcast_ref(Instrument_as_any(slots[slot].value.vtable, Ref(slot)), T)])
    /\ UNCHANGED <<slots, args, idVars>>

NextInstruments ==
    \/ \E slot \in Slots, x \in CryptoFutureArgs : NewCryptoFuture(slot, x)
    \/ \E slot \in Slots, x \in OptionsContractArgs : NewOptionsContract(slot, x)
    \/ \E src \in Slots, dst \in Slots : Clone(src, dst)
    \/ \E slot \in Slots, T \in Variants : Downcast(slot, T)

SpecInstruments == Init /\ [][NextInstruments]_vars

\* ------------------------------------------------------------------------
\* Properties
\* ------------------------------------------------------------------------
Bound(slot) == slots[slot] # None
Variant(slot) == slots[slot].value.vtable
Data(slot) == slots[slot].value.data
IsCryptoFuture(slot) == Bound(slot) /\ Variant(slot) = "CryptoFuture"
IsOptionsContract(slot) == Bound(slot) /\ Variant(slot) = "OptionsContract"
Valid(s) == check_valid_string(s).tag = "Ok"

\* C1: two instances of one variant with equal ids are equal and feed the
\* same input to the hasher, whatever their other fields hold.
C1_EqualIdsEqualAndHashAlike ==
    \A s1 \in Slots, s2 \in Slots :
        /\ (IsCryptoFuture(s1) /\ IsCryptoFuture(s2) /\ Data(s1).id = Data(s2).id)
             => /\ CryptoFuture_eq(Data(s1), Data(s2))
                /\ CryptoFuture_hash(Data(s1), <<>>) = CryptoFuture_hash(Data(s2), <<>>)
        /\ (IsOptionsContract(s1) /\ IsOptionsContract(s2) /\ Data(s1).id = Data(s2).id)
             => /\ OptionsContract_eq(Data(s1), Data(s2))
                /\ OptionsContract_hash(Data(s1), <<>>) = OptionsContract_hash(Data(s2), <<>>)

\* Two crypto futures with the same id and different price increments.
C1_Witness ==
    /\ IsCryptoFuture("a") /\ IsCryptoFuture("b")
    /\ Data("a").id = Data("b").id
    /\ Data("a").price_increment # Data("b").price_increment

\* C2: two instances of one variant with different ids are never equal.
C2_DifferentIdsUnequal ==
    \A s1 \in Slots, s2 \in Slots :
        /\ (IsCryptoFuture(s1) /\ IsCryptoFuture(s2) /\ Data(s1).id # Data(s2).id)
             => ~CryptoFuture_eq(Data(s1), Data(s2))
        /\ (IsOptionsContract(s1) /\ IsOptionsContract(s2) /\ Data(s1).id # Data(s2).id)
             => ~OptionsContract_eq(Data(s1), Data(s2))

\* Two crypto futures that differ in the id and in nothing else.
C2_Witness ==
    /\ IsCryptoFuture("a") /\ IsCryptoFuture("b")
    /\ Data("a").id # Data("b").id
    /\ [Data("a") EXCEPT !.id = Data("b").id] = Data("b")

\* C3: OrderListId::new of a valid string succeeds, and as_str and Display
\* of the identifier give back exactly that string.
C3_RoundTrip ==
    (lastOp = "new" /\ Valid(lastArg))
        => /\ lastRet.tag = "Ok"
           /\ OrderListId_as_str(cache, lastRet.value) = lastArg
           /\ OrderListId_Display(cache, lastRet.value) = lastArg

\* new succeeded with a string that is not the table's first entry.
C3_Witness ==
    /\ lastOp = "new" /\ Valid(lastArg) /\ lastRet.tag = "Ok"
    /\ OrderListId_inner(lastRet.value) = 2

Instrument_price_precision(slot) ==
    IF Variant(slot) = "CryptoFuture" THEN CryptoFuture_price_precision(Data(slot))
    ELSE OptionsContract_price_precision(Data(slot))
Instrument_size_precision(slot) ==
    IF Variant(slot) = "CryptoFuture" THEN CryptoFuture_size_precision(Data(slot))
    ELSE OptionsContract_size_precision(Data(slot))
Instrument_price_increment(slot) ==
    IF Variant(slot) = "CryptoFuture" THEN CryptoFuture_price_increment(Data(slot))
    ELSE OptionsContract_price_increment(Data(slot))
Instrument_size_increment(slot) ==
    IF Variant(slot) = "CryptoFuture" THEN CryptoFuture_size_increment(Data(slot))
    ELSE OptionsContract_size_increment(Data(slot))

\* C5: every instance a factory returned has increments whose scale does not
\* exceed the declared precision (the factory rejects the others).
C5_IncrementsWithinPrecision ==
    \A slot \in Slots :
        Bound(slot)
            => /\ Instrument_price_increment(slot).precision <= Instrument_price_precision(slot)
               /\ Instrument_size_increment(slot).precision <= Instrument_size_precision(slot)

\* C6: a crypto future's multiplier is the quantity 1 at precision 0, it is
\* not inverse, its classes are Cryptocurrency and Future, it has no base
\* currency, and its settlement currency is the one the caller supplied.
C6_CryptoFutureFixedAccessors ==
    \A slot \in Slots :
        IsCryptoFuture(slot)
            => /\ CryptoFuture_multiplier(Data(slot)) = [raw |-> 1, precision |-> 0]
               /\ CryptoFuture_is_inverse(Data(slot)) = FALSE
               /\ CryptoFuture_asset_class(Data(slot)) = "Cryptocurrency"
               /\ CryptoFuture_instrument_class(Data(slot)) = "Future"
               /\ CryptoFuture_base_currency(Data(slot)) = None
               /\ CryptoFuture_settlement_currency(Data(slot))
                    = args[slot].value.settlement_currency

\* A crypto future whose settlement currency is not its quote currency.
C6_Witness ==
    \E slot \in Slots :
        /\ IsCryptoFuture(slot)
        /\ args[slot].value.settlement_currency # args[slot].value.quote_currency
        /\ CryptoFuture_settlement_currency(Data(slot))
             # CryptoFuture_quote_currency(Data(slot))

\* C7: an options contract has size precision 0 and size increment 1, its
\* lot size is present and is the constructor's, its multiplier is the
\* caller's, and its settlement currency is its quote currency.
C7_OptionsContractAccessors ==
    \A slot \in Slots :
        IsOptionsContract(slot)
            => /\ OptionsContract_size_precision(Data(slot)) = 0
               /\ OptionsContract_size_increment(Data(slot)) = [raw |-> 1, precision |-> 0]
               /\ OptionsContract_lot_size(Data(slot)) = Some(args[slot].value.lot_size)
               /\ OptionsContract_multiplier(Data(slot)) = args[slot].value.multiplier
               /\ OptionsContract_settlement_currency(Data(slot))
                    = OptionsContract_quote_currency(Data(slot))

\* An options contract built with a multiplier that is not its lot size.
C7_Witness ==
    \E slot \in Slots :
        /\ IsOptionsContract(slot)
        /\ args[slot].value.multiplier # args[slot].value.lot_size
        /\ args[slot].value.multiplier = Quantity_from(100)

\* The parts of C8: no string has two entries; identifiers that two threads
\* created from one string are equal; a step keeps every entry in its place.
C8_CacheUnique ==
    \A i \in 1..Len(cache), j \in 1..Len(cache) : cache[i] = cache[j] => i = j
C8_SameStringSameId ==
    \A t1 \in Threads, t2 \in Threads :
        (tret[t1].tag = "Ok" /\ tret[t2].tag = "Ok" /\ targ[t1] = targ[t2])
            => OrderListId_eq(tret[t1].value, tret[t2].value)
C8_CacheGrows ==
    /\ Len(cache') >= Len(cache)
    /\ \A i \in 1..Len(cache) : cache'[i] = cache[i]

\* C8: under every interleaving of create calls the interning table holds
\* each string at most once, identifiers created from one string are equal,
\* and no entry of the table is ever removed or changed.
C8_InterningSafe ==
    /\ [](C8_CacheUnique /\ C8_SameStringSameId)
    /\ [][C8_CacheGrows]_vars

\* Two threads hold identifiers created from the same string while the table
\* holds another string as well.
C8_Witness ==
    /\ tret["t1"].tag = "Ok" /\ tret["t2"].tag = "Ok"
    /\ targ["t1"] = targ["t2"]
    /\ Len(cache) = 2

\* C9: a downcast of an instrument yields the instance when the requested
\* variant is its concrete one, and the absent value when it is not.
C9_DowncastCleanly ==
    probe # None
        => LET p == probe.value
           IN  /\ Bound(p.slot)
               /\ p.result = IF Variant(p.slot) = p.target
                             THEN Some(Ref(p.slot))
                             ELSE None

\* A crypto future was asked for an options contract and the answer was None.
C9_Witness ==
    /\ probe # None
    /\ IsCryptoFuture(probe.value.slot)
    /\ probe.value.target = "OptionsContract"
    /\ probe.value.result = None

\* C10: whatever new and set_inner calls were made, an identifier's value is
\* non-empty and passes the valid-string check.
C10_IdentifierAlwaysValid ==
    \A x \in {ident, copy} :
        x # None => Valid(OrderListId_as_str(cache, x.value))

====
